---- MODULE Spec2Model ----
(***************************************************************************)
(* Model of notebooks/dataset_manipulation/postprocess.py: the NorESM      *)
(* post-processing pipeline (create_dataset, fix_cam_time, fix_units,      *)
(* fix_names, aerosol_cloud_forcing_scomposition_Ghan, save_postprocessed).*)
(*                                                                         *)
(* A dataset is a record                                                   *)
(*   [vars |-> name -> [values |-> Seq(Val), attrs |-> attr -> string],    *)
(*    time |-> Seq(Stamp), bnds |-> Seq([s, e]), ids |-> Seq(Nat)]         *)
(* where ids numbers the time steps of the merged raw dataset, a Stamp is  *)
(* [y, m, d, h] and a Val is [m, e], the number m * 10^e (the scale        *)
(* factors of fix_units do not fit a 32 bit integer).                      *)
(***************************************************************************)
EXTENDS Integers, Sequences, FiniteSets, TLC

VARIABLES disk, pc, args, ds, arg_after, err, files, sargs

vars == <<disk, pc, args, ds, arg_after, err, files, sargs>>

----------------------------------------------------------------------------
(* Bounds of the model *)

\* number of time steps of the merged raw dataset
MaxSteps == 3
\* largest spinup_months tried
MaxSpinup == 3
\* raw values are drawn from seeds 0..MaxSeed
MaxSeed == 1

----------------------------------------------------------------------------
(* Python helpers *)

NoDs == [none |-> TRUE]

\* sum(list of lists, []) / list + list, as sets of names are what ds[...] selects
SeqToSet(s) == {s[i] : i \in DOMAIN s}

RECURSIVE FlatCat(_)
FlatCat(ss) == IF ss = <<>> THEN <<>> ELSE Head(ss) \o FlatCat(Tail(ss))

\* str.find: lowest 0-based index of sub in s, -1 when absent
py_find(s, sub) ==
    LET hits == {i \in 0..(Len(s) - Len(sub)) : SubSeq(s, i + 1, i + Len(sub)) = sub}
    IN  IF hits = {} THEN -1 ELSE CHOOSE i \in hits : \A j \in hits : i <= j

\* Python values with their type: == between a list and a str is False
PyStr(s) == [tag |-> "str", v |-> s]
PyList(l) == [tag |-> "list", v |-> l]
PyEq(a, b) == a.tag = b.tag /\ a.v = b.v
\* x in list, the list given by its elements
PyIn(x, elems) == \E y \in elems : PyEq(y, x)

\* truthiness of the fix_timestamp argument (None and '' are falsy)
PyTruthy(s) == s # "None" /\ s # ""

----------------------------------------------------------------------------
(* Module-level lists *)

atm_always_include == <<"LANDFRAC", "GRIDAREA", "gw", "date", "time_bnds">>
lnd_always_include == <<"area", "landfrac", "landmask", "pftmask", "PCT_LANDUNIT">>
pressure_variables == <<"P0", "hyam", "hybm", "PS", "hyai", "hybi", "ilev">>
Ghan_vars == <<"SWDIR", "LWDIR", "DIR", "SWCF", "LWCF", "NCFT", "SW_rest", "LW_rest">>

Ghan_prereq == <<"FLNT", "FSNT", "FLNT_DRF", "FLNTCDRF", "FSNTCDRF", "FSNT_DRF">>

----------------------------------------------------------------------------
(* variables_by_component: categories in dict order, and each category's list *)

lnd_vars == <<"PCT_NAT_PFT", "TLAI">>
biogeochem_vars == <<"GPP", "NPP", "NEE", "NEP", "STORVEGN", "TOTPFTN", "TOTVEGN",
                     "TOTCOLC", "TOTECOSYSC", "TOTPFTC", "TOTVEGC", "STORVEGC">>
evap_vars == <<"QFLX_EVAP_TOT", "FCEV", "FCTR", "FGEV", "QSOIL", "QVEGE", "QVEGT">>
meg_vars == <<"MEG_isoprene", "MEG_limonene", "MEG_myrcene", "MEG_ocimene_t_b",
              "MEG_pinene_a", "MEG_pinene_b", "MEG_sabinene">>

categories_of(comp) ==
    IF comp = "atm" THEN <<"BVOC", "SOA", "CLOUDPROP", "RADIATIVE", "TURBFLUXES">>
    ELSE <<"LAND", "BIOGEOCHEM", "ET">>

variables_by_component(comp, bvoc) ==
    IF comp = "atm" THEN
        [BVOC |-> <<"SFisoprene", "SFmonoterp">>,
         SOA |-> <<"N_AER", "DOD550", "SOA_A1", "SOA_NA", "cb_SOA_A1", "cb_SOA_NA",
                   "cb_SOA_A1_OCW", "cb_SOA_NA_OCW">>,
         CLOUDPROP |-> <<"ACTNL", "ACTREL", "CDNUMC", "CLDHGH", "CLDLOW", "CLDMED",
                         "CLDTOT", "CLDLIQ", "CLOUD", "CLOUDCOVER_CLUBB", "FCTL",
                         "NUMLIQ", "TGCLDLWP">>,
         RADIATIVE |-> <<"FSDS", "FSNS", "FLNT", "FSNT", "FLNT_DRF", "FLNTCDRF",
                         "FSNTCDRF", "FSNT_DRF", "LWCF", "SWCF">>,
         TURBFLUXES |-> <<"LHFLX", "SHFLX">>]
    ELSE IF bvoc THEN
        [LAND |-> meg_vars \o lnd_vars,
         BIOGEOCHEM |-> biogeochem_vars,
         ET |-> evap_vars]
    ELSE
        [LAND |-> lnd_vars,
         BIOGEOCHEM |-> biogeochem_vars,
         ET |-> evap_vars]

\* sum([*variables_by_component(comp, bvoc).values()], [])
catalog_flat(comp, bvoc) ==
    LET cats == categories_of(comp)
        v == variables_by_component(comp, bvoc)
    IN  FlatCat([i \in DOMAIN cats |-> v[cats[i]]])

----------------------------------------------------------------------------
(* Calendar arithmetic of numpy datetime64 (proleptic Gregorian) *)

IsLeap(y) == (y % 4 = 0 /\ y % 100 # 0) \/ y % 400 = 0

DaysInMonth(y, m) ==
    IF m = 2 THEN (IF IsLeap(y) THEN 29 ELSE 28)
    ELSE IF m \in {4, 6, 9, 11} THEN 30 ELSE 31

Stamp(y, m, d, h) == [y |-> y, m |-> m, d |-> d, h |-> h]

NextDay(t) ==
    IF t.d < DaysInMonth(t.y, t.m) THEN [t EXCEPT !.d = t.d + 1]
    ELSE IF t.m < 12 THEN [t EXCEPT !.d = 1, !.m = t.m + 1]
    ELSE [t EXCEPT !.d = 1, !.m = 1, !.y = t.y + 1]

RECURSIVE AddDays(_, _)
AddDays(t, n) == IF n = 0 THEN t ELSE AddDays(NextDay(t), n - 1)

NextMonth(t) ==
    IF t.m < 12 THEN [t EXCEPT !.m = t.m + 1] ELSE [t EXCEPT !.m = 1, !.y = t.y + 1]

\* chronological order of two stamps
Before(a, b) ==
    \/ a.y < b.y
    \/ a.y = b.y /\ a.m < b.m
    \/ a.y = b.y /\ a.m = b.m /\ a.d < b.d
    \/ a.y = b.y /\ a.m = b.m /\ a.d = b.d /\ a.h < b.h

----------------------------------------------------------------------------
(* Datasets *)

DataVars(d) == DOMAIN d.vars

\* number of time steps, len(ds.time)
NSteps(d) == Len(d.time)

Ok(d) == [err |-> "none", ds |-> d]
Raise(e) == [err |-> e, ds |-> NoDs]

\* ds.isel(time=slice(lo, hi)) for 0 <= lo: steps lo..hi-1 (0-based) of every array
isel_time(d, lo, hi) ==
    [vars |-> [n \in DOMAIN d.vars |->
                 [d.vars[n] EXCEPT !.values = SubSeq(d.vars[n].values, lo + 1, hi)]],
     time |-> SubSeq(d.time, lo + 1, hi),
     bnds |-> SubSeq(d.bnds, lo + 1, hi),
     ids  |-> SubSeq(d.ids, lo + 1, hi)]

\* ds[variables]: KeyError when a name is missing, else the dataset restricted to them
select_vars(d, names) ==
    IF SeqToSet(names) \subseteq DataVars(d)
    THEN Ok([d EXCEPT !.vars = [n \in SeqToSet(names) |-> d.vars[n]]])
    ELSE Raise("KeyError")

\* attrs[key] = value
set_attr(attrs, key, value) ==
    [k \in DOMAIN attrs \cup {key} |-> IF k = key THEN value ELSE attrs[k]]

----------------------------------------------------------------------------
(* fix_cam_time *)

ShiftDays == 14
MidMonthDay == 15

TimeTypes == {"DatetimeNoLeap", "datetime64"}

\* variant: the first day of the month instead of the 15th
noleap_date_first(start) == Stamp(start.y, start.m, 1, 0)

\* [DatetimeNoLeap(year, month, 15) for year, month in zip(years, months)]
noleap_date(start) == Stamp(start.y, start.m, MidMonthDay, 0)

\* variant: fifteen days added instead of fourteen
datetime64_date_plus15(start) == AddDays(start, ShiftDays + 1)

\* time_bnds.isel(nbnd=0).values + np.timedelta64(14, 'D')
datetime64_date(start) == AddDays(start, ShiftDays)

\* the renamed copy ds_ has a time_bnds variable
has_time_bnds(d) == "time_bounds" \in DataVars(d) \/ "time_bnds" \in DataVars(d)

\* variant: an unknown time type falls through to the datetime64 branch
fix_cam_time_lenient(d, timetype) ==
    IF has_time_bnds(d)
    THEN Ok([d EXCEPT !.time =
                [i \in DOMAIN d.bnds |->
                    IF timetype = "DatetimeNoLeap" THEN noleap_date(d.bnds[i].s)
                    ELSE datetime64_date(d.bnds[i].s)]])
    ELSE Raise("AttributeError")

fix_cam_time(d, timetype) ==
    IF timetype = "DatetimeNoLeap" THEN
        IF has_time_bnds(d)
        THEN Ok([d EXCEPT !.time = [i \in DOMAIN d.bnds |-> noleap_date(d.bnds[i].s)]])
        ELSE Raise("AttributeError")
    ELSE IF timetype = "datetime64" THEN
        IF has_time_bnds(d)
        THEN Ok([d EXCEPT !.time = [i \in DOMAIN d.bnds |-> datetime64_date(d.bnds[i].s)]])
        ELSE Raise("AttributeError")
    ELSE Raise("ValueError: time type not supported")

----------------------------------------------------------------------------
(* Values: [m, e] is the number m * 10^e *)

Val(m) == [m |-> m, e |-> 0]

RECURSIVE Pow10(_)
Pow10(n) == IF n = 0 THEN 1 ELSE 10 * Pow10(n - 1)

\* the mantissa of v written with exponent e <= v.e
Mant(v, e) == v.m * Pow10(v.e - e)

MinExp(a, b) == IF a.e <= b.e THEN a.e ELSE b.e

VAdd(a, b) == [m |-> Mant(a, MinExp(a, b)) + Mant(b, MinExp(a, b)), e |-> MinExp(a, b)]
VNeg(a) == [m |-> 0 - a.m, e |-> a.e]
VSub(a, b) == VAdd(a, VNeg(b))

\* values * mul * 10^exp
VScale(v, mul, exp) == [m |-> v.m * mul, e |-> v.e + exp]

\* elementwise arithmetic of two arrays over the same time axis
ArrSub(x, y) == [i \in DOMAIN x |-> VSub(x[i], y[i])]
ArrAdd(x, y) == [i \in DOMAIN x |-> VAdd(x[i], y[i])]
ArrNeg(x) == [i \in DOMAIN x |-> VNeg(x[i])]

----------------------------------------------------------------------------
(* fix_units: the if/elif chain as one entry per variable *)

SecondsPerYear == 60 * 60 * 24 * 365
SecondsPerDay == 60 * 60 * 24

Rescale(mul, exp, units) == [kind |-> "scale", mul |-> mul, exp |-> exp, units |-> units]
Relabel(units) == [kind |-> "units", mul |-> 1, exp |-> 0, units |-> units]
Untouched == [kind |-> "none", mul |-> 1, exp |-> 0, units |-> ""]

\* variant: the second CLDMED of the cloud-fraction test reads CLDTOT
unit_entry_cldtot(var) ==
    IF var \in {"SFisoprene", "SFmonoterp"} THEN Rescale(SecondsPerYear, 6, "mg/m$^2$/y")
    ELSE IF var \in {"SOA_A1", "SOA_NA"} THEN Rescale(1, 9, "$\\mu$g/kg")
    ELSE IF var \in {"cb_SOA_A1", "cb_SOA_NA", "cb_SOA_A1_OCW", "cb_SOA_NA_OCW"}
        THEN Rescale(1, 6, "mg/m$^2$")
    ELSE IF var = "ACTNL" THEN Rescale(1, 6, "cm$^{-3}$")
    ELSE IF var = "CDNUMC" THEN Rescale(1, -10, "1e6 cm$^{-2}$")
    ELSE IF var \in {"CLDHGH", "CLDLOW", "CLDMED", "CLDTOT"} THEN Rescale(1, 3, "g/kg")
    ELSE IF var = "CLDLIQ" THEN Rescale(1, 6, "mg/kg")
    ELSE IF var = "TGCLDLWP" THEN Rescale(1, 3, "g/m$^2$")
    ELSE IF var = "QFLX_EVAP_TOT" THEN Rescale(SecondsPerDay, 0, "mm/day")
    ELSE IF var \in {"FLNT", "FSNT", "FLNT_DRF", "FLNTCDRF", "FSNT_DRF", "FSNTCDRF",
                     "LHFLX", "SHFLX"}
        THEN Relabel("W/m$^2$")
    ELSE Untouched

unit_entry(var) ==
    IF var \in {"SFisoprene", "SFmonoterp"} THEN Rescale(SecondsPerYear, 6, "mg/m$^2$/y")
    ELSE IF var \in {"SOA_A1", "SOA_NA"} THEN Rescale(1, 9, "$\\mu$g/kg")
    ELSE IF var \in {"cb_SOA_A1", "cb_SOA_NA", "cb_SOA_A1_OCW", "cb_SOA_NA_OCW"}
        THEN Rescale(1, 6, "mg/m$^2$")
    ELSE IF var = "ACTNL" THEN Rescale(1, 6, "cm$^{-3}$")
    ELSE IF var = "CDNUMC" THEN Rescale(1, -10, "1e6 cm$^{-2}$")
    ELSE IF var \in {"CLDHGH", "CLDLOW", "CLDMED", "CLDMED"} THEN Rescale(1, 3, "g/kg")
    ELSE IF var = "CLDLIQ" THEN Rescale(1, 6, "mg/kg")
    ELSE IF var = "TGCLDLWP" THEN Rescale(1, 3, "g/m$^2$")
    ELSE IF var = "QFLX_EVAP_TOT" THEN Rescale(SecondsPerDay, 0, "mm/day")
    ELSE IF var \in {"FLNT", "FSNT", "FLNT_DRF", "FLNTCDRF", "FSNT_DRF", "FSNTCDRF",
                     "LHFLX", "SHFLX"}
        THEN Relabel("W/m$^2$")
    ELSE Untouched

fix_units_var(var, x) ==
    LET t == unit_entry(var)
    IN  IF t.kind = "none" THEN x
        ELSE [values |-> [i \in DOMAIN x.values |-> VScale(x.values[i], t.mul, t.exp)],
              attrs  |-> set_attr(x.attrs, "units", t.units)]

\* works on ds_ = ds.copy(deep=True) and returns it
fix_units(d) == [d EXCEPT !.vars = [n \in DOMAIN d.vars |-> fix_units_var(n, d.vars[n])]]

----------------------------------------------------------------------------
(* fix_names *)

long_name_entry(var) ==
    IF var = "SOA_A1"
        THEN "SOA_A1 concentration - SOA condensate on existing particles from SOAGSV (gas)"
    ELSE IF var = "SOA_NA"
        THEN "SOA_NA concentration - SOA formed by co-nucleation with SO4"
    ELSE IF var = "cb_SOA_A1"
        THEN "SOA_A1 burden column - SOA condensate on existing particles from SOAGSV (gas)"
    ELSE IF var = "cb_SOA_NA"
        THEN "SOA_NA burden column - SOA formed by co-nucleation with SO4"
    ELSE IF var = "cb_SOA_A1_OCW"
        THEN "SOA_A1 burden column in cloud water - SOA condensate on existing particles from SOAGSV (gas)"
    ELSE IF var = "cb_SOA_NA_OCW"
        THEN "SOA_NA burden column in cloud water - SOA formed by co-nucleation with SO4"
    ELSE ""

\* DataArray.rename returns a new array that is dropped: the variable keeps its name
fix_names_var(var, x) ==
    IF long_name_entry(var) # ""
        THEN [x EXCEPT !.attrs = set_attr(x.attrs, "long_name", long_name_entry(var))]
    ELSE IF var \in {"TGCLDLWP", "QFLX_EVAP_TOT"}
        THEN [x EXCEPT !.attrs = set_attr(x.attrs, "CLM5_name", var)]
    ELSE x

fix_names(d) == [d EXCEPT !.vars = [n \in DOMAIN d.vars |-> fix_names_var(n, d.vars[n])]]

----------------------------------------------------------------------------
(* aerosol_cloud_forcing_scomposition_Ghan *)

\* variant: only the first of the six names is looked up
ghan_prereq_first_only(d) == Ghan_prereq[1] \in DataVars(d)

\* [...six names...] in list(ds.data_vars): the list is compared with each name
ghan_prereq_present(d) ==
    PyIn(PyList(Ghan_prereq), {PyStr(n) : n \in DataVars(d)})

ghan_name_entry(var) ==
    IF var = "FSNT" THEN <<"SWTOT", "Shortwave total forcing at TOA">>
    ELSE IF var = "FLNT" THEN <<"LWTOT", "Longwave total forcing at TOA">>
    ELSE IF var = "FSNT_DRF"
        THEN <<"SW_clean", "Shortwave without direct aerosol forcing (scattering, absorbing)">>
    ELSE IF var = "FSNTCDRF"
        THEN <<"SW_clean_clear", "Shortwave without direct aerosol and cloud forcing">>
    ELSE IF var = "FLNT_DRF"
        THEN <<"LW_clean", "Longwave without direct aerosol forcing (scattering, absorbing)">>
    ELSE IF var = "FLNTCDRF"
        THEN <<"LW_clean_clear", "Longwave without direct aerosol and cloud forcing">>
    ELSE <<>>

\* a freshly computed array carries no attributes until units and long_name are set
Derived(values, units, long_name) ==
    [values |-> values, attrs |-> [units |-> units, long_name |-> long_name]]

\* the body of the for loop over Ghan_vars, for one name, on the variables v so far
ghan_derive(var, v) ==
    IF var = "SWDIR" THEN
        Derived(ArrSub(v["FSNT"].values, v["FSNT_DRF"].values), v["FSNT_DRF"].attrs["units"],
                "Shortwave aerosol direct radiative forcing - Ghan's scomposition")
    ELSE IF var = "LWDIR" THEN
        Derived(ArrNeg(ArrSub(v["FLNT"].values, v["FLNT_DRF"].values)),
                v["FLNT_DRF"].attrs["units"],
                "Longwave aerosol direct radiative forcing - Ghan's scomposition")
    ELSE IF var = "DIR" THEN
        Derived(ArrAdd(v["LWDIR"].values, v["SWDIR"].values), v["LWDIR"].attrs["units"],
                "Net aerosol direct radiative forcing - Ghan's scomposition")
    ELSE IF var = "SWCF" THEN
        Derived(ArrSub(v["FSNT_DRF"].values, v["FSNTCDRF"].values),
                v["FSNT_DRF"].attrs["units"],
                "Shortwave cloud radiative forcing - Ghan's scomposition")
    ELSE IF var = "LWCF" THEN
        Derived(ArrNeg(ArrSub(v["FLNT_DRF"].values, v["FLNTCDRF"].values)),
                v["FLNT_DRF"].attrs["units"],
                "Longwave cloud radiative forcing - Ghan's scomposition")
    ELSE IF var = "NCFT" THEN
        Derived(ArrSub(ArrSub(v["FSNT_DRF"].values, v["FSNTCDRF"].values),
                       ArrSub(v["FLNT_DRF"].values, v["FLNTCDRF"].values)),
                v["FLNT_DRF"].attrs["units"],
                "Net cloud radiative forcing - Ghan's scomposition")
    ELSE IF var = "SW_rest" THEN
        [v["FSNTCDRF"] EXCEPT !.attrs = set_attr(@, "long_name",
            "Shortwave surface albedo radiative forcing - Ghan's scomposition")]
    ELSE
        [v["FLNTCDRF"] EXCEPT !.attrs = set_attr(@, "long_name",
            "Clear sky total column longwave flux - Ghan's scomposition")]

\* ds_[var] = ...
assign_var(v, var, x) == [n \in DOMAIN v \cup {var} |-> IF n = var THEN x ELSE v[n]]

RECURSIVE ghan_loop(_, _)
ghan_loop(v, i) ==
    IF i > Len(Ghan_vars) THEN v
    ELSE ghan_loop(assign_var(v, Ghan_vars[i], ghan_derive(Ghan_vars[i], v)), i + 1)

\* the second loop: Ghan_name and Ghan_long_name on the six prerequisite variables
ghan_annotate(var, x) ==
    IF ghan_name_entry(var) = <<>> THEN x
    ELSE [x EXCEPT !.attrs = set_attr(set_attr(@, "Ghan_name", ghan_name_entry(var)[1]),
                                      "Ghan_long_name", ghan_name_entry(var)[2])]

\* what the loops read: the six variables and the units of FSNT_DRF and FLNT_DRF
ghan_readable(d) ==
    /\ SeqToSet(Ghan_prereq) \subseteq DataVars(d)
    /\ "units" \in DOMAIN d.vars["FSNT_DRF"].attrs
    /\ "units" \in DOMAIN d.vars["FLNT_DRF"].attrs

aerosol_cloud_forcing_scomposition_Ghan(d) ==
    IF ghan_prereq_present(d) THEN
        IF ghan_readable(d)
        THEN LET v == ghan_loop(d.vars, 1)
             IN  Ok([d EXCEPT !.vars = [n \in DOMAIN v |-> ghan_annotate(n, v[n])]])
        ELSE Raise("KeyError")
    ELSE Ok(d)

----------------------------------------------------------------------------
(* save_postprocessed *)

\* casealias+'_'+cat+'_'+date+'.nc' with date = str(first year)+str(last year)
file_name(casealias, cat, d) ==
    <<casealias, "_", cat, "_", d.time[1].y, d.time[Len(d.time)].y, ".nc">>

\* variant: the running list is replaced by the category's list, not extended
save_accumulate_replace(variables, component, cat) ==
    LET byc == variables_by_component(component, TRUE)
    IN  IF cat = "RADIATIVE" THEN byc[cat] \o Ghan_vars \o byc["TURBFLUXES"] ELSE byc[cat]

\* the running list after adding category cat
save_accumulate(variables, component, cat) ==
    LET byc  == variables_by_component(component, TRUE)
        plus == variables \o byc[cat]
    IN  IF cat = "RADIATIVE" THEN plus \o Ghan_vars \o byc["TURBFLUXES"] ELSE plus

save_base(component, pressure_vars) ==
    IF component = "atm"
    THEN (IF pressure_vars THEN atm_always_include \o pressure_variables
          ELSE atm_always_include)
    ELSE lnd_always_include

\* the for loop from category i on: the files written, and the error that ended it
RECURSIVE save_loop(_, _, _, _, _, _)
save_loop(d, component, casealias, i, variables, written) ==
    LET cats == categories_of(component)
    IN  IF i > Len(cats) THEN [files |-> written, err |-> "none"]
        ELSE LET cat == cats[i]
                 acc == save_accumulate(variables, component, cat)
             IN  IF cat = "TURBFLUXES"
                 THEN save_loop(d, component, casealias, i + 1, acc, written)
                 ELSE IF select_vars(d, acc).err # "none"
                 THEN [files |-> written, err |-> select_vars(d, acc).err]
                 ELSE save_loop(d, component, casealias, i + 1, acc,
                                Append(written,
                                       [name |-> file_name(casealias, cat, d),
                                        cat  |-> cat,
                                        vars |-> DataVars(select_vars(d, acc).ds)]))

save_postprocessed(d, component, casealias, pressure_vars) ==
    IF NSteps(d) = 0 THEN [files |-> <<>>, err |-> "IndexError"]
    ELSE IF component \notin {"atm", "lnd"}
    THEN [files |-> <<>>, err |-> "UnboundLocalError"]
    ELSE save_loop(d, component, casealias, 1, save_base(component, pressure_vars), <<>>)

----------------------------------------------------------------------------
(* The raw history files on disk: the inputs of a run *)

Years == {2000, 2001}
Months == 1..12

\* a layout of the time axis: the first interval's start and how intervals follow
MonthlyLayouts(ys, ms) ==
    {[kind |-> "monthly", y |-> y, m |-> m, d |-> 1, h |-> 0, len |-> 0] : y \in ys, m \in ms}
DayLayouts(ys, ms) ==
    {[kind |-> "days", y |-> y, m |-> m, d |-> d, h |-> h, len |-> len] :
        y \in ys, m \in ms, d \in {1, 14, 15, 20}, h \in {0, 12}, len \in {10, 14, 15, 40}}

IntervalEnd(layout, start) ==
    IF layout.kind = "monthly" THEN NextMonth(start) ELSE AddDays(start, layout.len)

RECURSIVE RawBounds(_, _, _)
RawBounds(layout, start, n) ==
    IF n = 0 THEN <<>>
    ELSE <<[s |-> start, e |-> IntervalEnd(layout, start)]>>
         \o RawBounds(layout, IntervalEnd(layout, start), n - 1)

ExampleFlux ==
    [FSNT |-> 10, FSNT_DRF |-> 7, FLNT |-> 5, FLNT_DRF |-> 3, FSNTCDRF |-> 4, FLNTCDRF |-> 2]

\* seed 0 gives the fluxes the values of ExampleFlux at every step
RawValue(name, i, seed) ==
    LET base == IF name \in DOMAIN ExampleFlux THEN ExampleFlux[name] ELSE 1
    IN  Val(base * (seed + 1) + seed * i)

RawVar(name, seed) ==
    [values |-> [i \in 1..MaxSteps |-> RawValue(name, i, seed)],
     attrs  |-> [units |-> "raw", long_name |-> name]]

Variants == {"full", "noFSNT_DRF", "noMEG", "withGhan"}

\* T is a variable of the history files that no list of the module names
RawNames(comp, variant) ==
    IF comp = "atm" THEN
        ((SeqToSet(atm_always_include) \cup SeqToSet(pressure_variables)
            \cup SeqToSet(catalog_flat("atm", TRUE)) \cup {"T"})
          \ (IF variant = "noFSNT_DRF" THEN {"FSNT_DRF"} ELSE {}))
        \cup (IF variant = "withGhan" THEN SeqToSet(Ghan_vars) ELSE {})
    ELSE
        (SeqToSet(lnd_always_include) \cup SeqToSet(catalog_flat("lnd", TRUE))
            \cup {"time_bounds", "T"})
          \ (IF variant = "noMEG" THEN SeqToSet(meg_vars) ELSE {})

\* the NorESM h0 time stamp is the end of the averaging interval
RawDataset(comp, layout, variant, seed) ==
    LET b == RawBounds(layout, Stamp(layout.y, layout.m, layout.d, layout.h), MaxSteps)
    IN  [vars |-> [n \in RawNames(comp, variant) |-> RawVar(n, seed)],
         time |-> [i \in DOMAIN b |-> b[i].e],
         bnds |-> b,
         ids  |-> [i \in 1..MaxSteps |-> i]]

\* what the history directories of a case hold
RawDisk(layout, variant, seed) == [layout |-> layout, variant |-> variant, seed |-> seed]

\* xr.open_mfdataset on the sorted files of component comp
open_mfdataset(dk, comp) == RawDataset(comp, dk.layout, dk.variant, dk.seed)

----------------------------------------------------------------------------
(* create_dataset *)

\* casename.find('OFF')>0.
bvoc_of(casename) == ~(py_find(casename, <<"O", "F", "F">>) > 0)

selection_of(comp, casename, pressure_vars) ==
    LET base == IF comp = "atm"
                THEN (IF pressure_vars THEN atm_always_include \o pressure_variables
                      ELSE atm_always_include)
                ELSE lnd_always_include
        bvoc == IF comp = "lnd" THEN bvoc_of(casename) ELSE TRUE
    IN  base \o catalog_flat(comp, bvoc)

\* variant: the slice keeps the first len - spinup_months steps
trim_spinup_tail(d, spinup_months) == isel_time(d, 0, NSteps(d) - spinup_months)

\* ds.isel(time=slice(spinup_months, len(ds.time)))
trim_spinup(d, spinup_months) == isel_time(d, spinup_months, NSteps(d))

create_dataset(dk, a) ==
    IF a.comp \notin {"atm", "lnd"} THEN Raise("ValueError: component not supported")
    ELSE
      LET opened == open_mfdataset(dk, a.comp)
          fixed  == IF PyTruthy(a.fix_timestamp) /\ a.history_field = "h0"
                    THEN fix_cam_time(opened, a.fix_timestamp)
                    ELSE Ok(opened)
      IN  IF fixed.err # "none" THEN fixed
          ELSE LET trimmed == trim_spinup(fixed.ds, a.spinup_months)
               IN  IF a.full_dset THEN Ok(trimmed)
                   ELSE select_vars(trimmed,
                                    selection_of(a.comp, a.casename, a.pressure_vars))

----------------------------------------------------------------------------
(* The pipeline: create_dataset, fix_units, fix_names, Ghan, save_postprocessed *)

Comps == {"atm", "lnd", "ocn"}
Casenames == {<<"I", "-", "O", "N">>, <<"I", "-", "O", "F", "F">>, <<"O", "F", "F", "-", "I">>}
HistoryFields == {"h0", "h1"}
FixTimestamps == {"None", "datetime64", "DatetimeNoLeap", "gregorian"}
Aliases == {"IDEAL-ON"}

NoArgs == [none |-> TRUE]

CallArgs ==
    [raw_path : {"/raw/"}, casename : Casenames, comp : Comps,
     history_field : HistoryFields, full_dset : BOOLEAN,
     fix_timestamp : FixTimestamps, spinup_months : 0..MaxSpinup,
     pressure_vars : BOOLEAN]

SaveArgs == [component : {"atm", "lnd"}, casealias : Aliases, pressure_vars : BOOLEAN]

Init ==
    /\ disk \in {RawDisk(l, v, s) : l \in MonthlyLayouts({2000}, {1, 11}),
                                    v \in Variants, s \in 0..MaxSeed}
    /\ pc = "start"
    /\ args = NoArgs
    /\ ds = NoDs
    /\ arg_after = NoDs
    /\ err = "none"
    /\ files = <<>>
    /\ sargs = NoArgs

\* a call returns its dataset, or raises and the run stops there
Finish(r, done, failed) ==
    /\ ds' = r.ds
    /\ err' = r.err
    /\ pc' = IF r.err = "none" THEN done ELSE failed

CreateDataset ==
    /\ pc = "start"
    /\ \E a \in CallArgs :
        /\ args' = a
        /\ Finish(create_dataset(disk, a), "created", "create_failed")
    /\ UNCHANGED <<disk, arg_after, files, sargs>>

\* arg_after is the argument object as the call leaves it: each stage works on a deep copy
FixUnits ==
    /\ pc = "created"
    /\ arg_after' = ds
    /\ Finish(Ok(fix_units(ds)), "units", "units_failed")
    /\ UNCHANGED <<disk, args, files, sargs>>

FixNames ==
    /\ pc = "units"
    /\ arg_after' = ds
    /\ Finish(Ok(fix_names(ds)), "names", "names_failed")
    /\ UNCHANGED <<disk, args, files, sargs>>

Ghan ==
    /\ pc = "names"
    /\ arg_after' = ds
    /\ Finish(aerosol_cloud_forcing_scomposition_Ghan(ds), "ghan", "ghan_failed")
    /\ UNCHANGED <<disk, args, files, sargs>>

SavePostprocessed ==
    /\ pc = "ghan"
    /\ \E a \in SaveArgs :
        LET r == save_postprocessed(ds, a.component, a.casealias, a.pressure_vars)
        IN  /\ sargs' = a
            /\ files' = r.files
            /\ err' = r.err
            /\ pc' = "saved"
    /\ UNCHANGED <<disk, args, ds, arg_after>>

Next == CreateDataset \/ FixUnits \/ FixNames \/ Ghan \/ SavePostprocessed

Spec == Init /\ [][Next]_vars

----------------------------------------------------------------------------
(* fix_cam_time called on the raw dataset of either component *)

InitTime ==
    /\ disk \in {RawDisk(l, "full", 0) :
                    l \in MonthlyLayouts(Years, Months) \cup DayLayouts(Years, Months)}
    /\ pc = "start"
    /\ args = NoArgs
    /\ ds = NoDs
    /\ arg_after = NoDs
    /\ err = "none"
    /\ files = <<>>
    /\ sargs = NoArgs

FixCamTime ==
    /\ pc = "start"
    /\ \E comp \in {"atm", "lnd"}, tt \in FixTimestamps :
        /\ args' = [comp |-> comp, timetype |-> tt]
        /\ arg_after' = open_mfdataset(disk, comp)
        /\ Finish(fix_cam_time(open_mfdataset(disk, comp), tt), "timefixed", "time_failed")
    /\ UNCHANGED <<disk, files, sargs>>

NextTime == FixCamTime

SpecTime == InitTime /\ [][NextTime]_vars

----------------------------------------------------------------------------
(* Properties *)

Contains(s, sub) == \E i \in 1..(Len(s) - Len(sub) + 1) : SubSeq(s, i, i + Len(sub) - 1) = sub

HasSixFluxes(d) == SeqToSet(Ghan_prereq) \subseteq DataVars(d)

\* C1: given a dataset with all six prerequisite fluxes, the Ghan decomposition
\* returns a dataset holding the eight derived variables, each the stated linear
\* combination of the input fluxes at every time step (10, 7, 5, 3, 4, 2 give
\* 3, -2, 1, 3, -1, 4, 4, 2).
C1_GhanDerivesForcings ==
    (pc \in {"ghan", "ghan_failed"} /\ HasSixFluxes(arg_after)) =>
        /\ pc = "ghan"
        /\ SeqToSet(Ghan_vars) \subseteq DataVars(ds)
        /\ \A i \in DOMAIN arg_after.ids :
            LET in(n) == arg_after.vars[n].values[i]
                out(n) == ds.vars[n].values[i]
            IN  /\ out("SWDIR") = VSub(in("FSNT"), in("FSNT_DRF"))
                /\ out("LWDIR") = VNeg(VSub(in("FLNT"), in("FLNT_DRF")))
                /\ out("DIR") = VAdd(out("LWDIR"), out("SWDIR"))
                /\ out("SWCF") = VSub(in("FSNT_DRF"), in("FSNTCDRF"))
                /\ out("LWCF") = VNeg(VSub(in("FLNT_DRF"), in("FLNTCDRF")))
                /\ out("NCFT") = VAdd(out("SWCF"), out("LWCF"))
                /\ out("SW_rest") = in("FSNTCDRF")
                /\ out("LW_rest") = in("FLNTCDRF")
                /\ ([n \in DOMAIN ExampleFlux |-> in(n)] = [n \in DOMAIN ExampleFlux |-> Val(ExampleFlux[n])]
                      => /\ out("SWDIR") = Val(3) /\ out("LWDIR") = Val(-2)
                         /\ out("DIR") = Val(1)   /\ out("SWCF") = Val(3)
                         /\ out("LWCF") = Val(-1) /\ out("NCFT") = Val(4)
                         /\ out("SW_rest") = Val(4) /\ out("LW_rest") = Val(2))

\* C2: for the land component, create_dataset leaves the MEG_* variables out of
\* the selection for every case name containing "OFF" at any position, and
\* keeps them for every case name without "OFF".
C2_OffExcludesBiogenic ==
    (pc = "created" /\ args.comp = "lnd" /\ ~args.full_dset) =>
        IF Contains(args.casename, <<"O", "F", "F">>)
        THEN SeqToSet(meg_vars) \cap DataVars(ds) = {}
        ELSE SeqToSet(meg_vars) \subseteq DataVars(ds)

----------------------------------------------------------------------------
(* C3: the writer *)

\* the categories that get a file, in catalog order
FileCats(component) == SelectSeq(categories_of(component), LAMBDA c : c # "TURBFLUXES")

CatIndex(component, cat) ==
    CHOOSE i \in DOMAIN categories_of(component) : categories_of(component)[i] = cat

\* always-included (+ pressure) + the category and every earlier category
Cumulative(component, pressure_vars, cat) ==
    SeqToSet(save_base(component, pressure_vars))
    \cup UNION {SeqToSet(variables_by_component(component, TRUE)[categories_of(component)[j]]) :
                    j \in 1..CatIndex(component, cat)}

SelectionAsClaimed(component, pressure_vars, cat) ==
    Cumulative(component, pressure_vars, cat)
    \cup (IF cat = "RADIATIVE"
          THEN SeqToSet(variables_by_component(component, TRUE)["TURBFLUXES"]) ELSE {})

SelectionAsWritten(component, pressure_vars, cat) ==
    SelectionAsClaimed(component, pressure_vars, cat)
    \cup (IF cat = "RADIATIVE" THEN SeqToSet(Ghan_vars) ELSE {})

FileNamed(f, cat, d) ==
    /\ f.cat = cat
    /\ f.name = <<sargs.casealias, "_", cat, "_", d.time[1].y, d.time[Len(d.time)].y, ".nc">>

\* C3 as stated, for the runs the writer completes: one file per category other
\* than TURBFLUXES, in catalog order, each holding exactly always-included
\* (+ pressure) + its own and every earlier category's variables, the turbulent
\* fluxes added to the RADIATIVE file.
C3_WriterAsClaimed ==
    (pc = "saved" /\ err = "none") =>
        LET cats == FileCats(sargs.component)
        IN  /\ Len(files) = Len(cats)
            /\ \A i \in DOMAIN files :
                /\ FileNamed(files[i], cats[i], ds)
                /\ files[i].vars = SelectionAsClaimed(sargs.component, sargs.pressure_vars, cats[i])

\* C3 amended: the writer walks the categories in catalog order and stops with a
\* KeyError at the first category whose selection names a variable the dataset
\* lacks; every category before that, other than TURBFLUXES, gets exactly one
\* file <alias>_<category>_<startyear><endyear>.nc holding exactly the
\* always-included variables (+ pressure for 'atm' when flagged) + the variables
\* of that and every earlier category, and in the RADIATIVE file also the eight
\* Ghan variables and the turbulent fluxes; TURBFLUXES gets no file.
C3_WriterCumulative ==
    (pc = "saved" /\ NSteps(ds) > 0) =>
        LET cats == FileCats(sargs.component)
            sel(c) == SelectionAsWritten(sargs.component, sargs.pressure_vars, c)
            fits == {i \in DOMAIN cats : \A j \in 1..i : sel(cats[j]) \subseteq DataVars(ds)}
        IN  /\ Len(files) = Cardinality(fits)
            /\ \A i \in DOMAIN files :
                /\ FileNamed(files[i], cats[i], ds)
                /\ files[i].vars = sel(cats[i])
            /\ (err = "none") = (Len(files) = Len(cats))
            /\ err \in {"none", "KeyError"}
            /\ \A i \in DOMAIN files : files[i].cat # "TURBFLUXES"

C3_Witness ==
    /\ pc = "saved"
    /\ sargs.component = "atm"
    /\ Len(files) = 4
    /\ files[4].cat = "RADIATIVE"
    /\ "SWDIR" \in files[4].vars
    /\ "LHFLX" \in files[4].vars
    /\ "LHFLX" \notin files[3].vars
    /\ ds.time[1].y # ds.time[Len(ds.time)].y

----------------------------------------------------------------------------
(* C4: an unsupported time-correction mode *)

Called == pc # "start"

UnsupportedMode(m) == PyTruthy(m) /\ m \notin TimeTypes

\* C4 as stated: create_dataset called with an unsupported, non-empty
\* fix_timestamp never returns a dataset, whatever the history_field.
C4_InvalidModeAlwaysFatal ==
    (Called /\ UnsupportedMode(args.fix_timestamp)) => (pc = "create_failed" /\ ds = NoDs)

\* C4 amended: fix_cam_time raises the invalid-configuration error for every
\* mode other than the two supported ones, and create_dataset called with such
\* a fix_timestamp never returns a dataset when history_field is 'h0' (the
\* only stream for which it calls fix_cam_time).
C4_InvalidModeFatalForH0 ==
    (Called /\ UnsupportedMode(args.fix_timestamp) /\ args.history_field = "h0") =>
        /\ pc = "create_failed"
        /\ ds = NoDs
        /\ args.comp \in {"atm", "lnd"} => err = "ValueError: time type not supported"

C4_Witness ==
    /\ pc = "create_failed"
    /\ args.comp = "lnd"
    /\ args.fix_timestamp = "gregorian"
    /\ args.history_field = "h0"
    /\ err = "ValueError: time type not supported"

----------------------------------------------------------------------------
(* C5, C9: the corrected time coordinate *)

FirstInstantOfMonth(t) == t.d = 1 /\ t.h = 0

\* C5: in both modes a step whose interval starts at the first instant of month
\* M of year Y gets a time value on day 15 of month M of year Y.
C5_MidMonthForMonthStart ==
    (pc = "timefixed") =>
        \A i \in DOMAIN ds.time :
            FirstInstantOfMonth(arg_after.bnds[i].s) =>
                /\ ds.time[i].y = arg_after.bnds[i].s.y
                /\ ds.time[i].m = arg_after.bnds[i].s.m
                /\ ds.time[i].d = 15

C5_Witness ==
    /\ pc = "timefixed"
    /\ args.timetype = "datetime64"
    /\ arg_after.bnds[1].s = Stamp(2001, 2, 1, 0)
    /\ ds.time[1] = Stamp(2001, 2, 15, 0)
    /\ ds.time[MaxSteps].m = MaxSteps + 1

Within(t, b) == Before(b.s, t) /\ Before(t, b.e)

\* C9 as stated: in either mode every corrected time value lies strictly inside
\* its step's interval, whatever the start day and the interval length.
C9_AlwaysInsideInterval ==
    (pc = "timefixed") => \A i \in DOMAIN ds.time : Within(ds.time[i], arg_after.bnds[i])

\* C9 amended: in either mode the corrected time value lies strictly inside the
\* step's interval whenever the interval starts before the 15th day of its
\* month and is longer than 14 days (every monthly interval is).
C9_InsideLongEnoughInterval ==
    (pc = "timefixed") =>
        \A i \in DOMAIN ds.time :
            LET b == arg_after.bnds[i]
            IN  (b.s.d < 15 /\ Before(AddDays(b.s, 14), b.e)) => Within(ds.time[i], b)

C9_Witness ==
    /\ pc = "timefixed"
    /\ args.timetype = "DatetimeNoLeap"
    /\ arg_after.bnds[1].s = Stamp(2000, 12, 1, 12)
    /\ arg_after.bnds[1].e = Stamp(2001, 1, 10, 12)
    /\ ds.time[1] = Stamp(2000, 12, 15, 0)

----------------------------------------------------------------------------
(* C6: fix_units *)

\* variable -> <<multiplier, power of ten, unit>>
ScaleTable ==
    [SFisoprene |-> <<31536000, 6, "mg/m$^2$/y">>, SFmonoterp |-> <<31536000, 6, "mg/m$^2$/y">>,
     SOA_A1 |-> <<1, 9, "$\\mu$g/kg">>, SOA_NA |-> <<1, 9, "$\\mu$g/kg">>,
     cb_SOA_A1 |-> <<1, 6, "mg/m$^2$">>, cb_SOA_NA |-> <<1, 6, "mg/m$^2$">>,
     cb_SOA_A1_OCW |-> <<1, 6, "mg/m$^2$">>, cb_SOA_NA_OCW |-> <<1, 6, "mg/m$^2$">>,
     ACTNL |-> <<1, 6, "cm$^{-3}$">>, CDNUMC |-> <<1, -10, "1e6 cm$^{-2}$">>,
     CLDHGH |-> <<1, 3, "g/kg">>, CLDLOW |-> <<1, 3, "g/kg">>, CLDMED |-> <<1, 3, "g/kg">>,
     CLDLIQ |-> <<1, 6, "mg/kg">>, TGCLDLWP |-> <<1, 3, "g/m$^2$">>,
     QFLX_EVAP_TOT |-> <<86400, 0, "mm/day">>]

UnitOnly == {"FLNT", "FSNT", "FLNT_DRF", "FLNTCDRF", "FSNT_DRF", "FSNTCDRF", "LHFLX", "SHFLX"}

OtherAttrsKept(x, y) ==
    /\ DOMAIN y.attrs = DOMAIN x.attrs \cup {"units"}
    /\ \A k \in DOMAIN x.attrs \ {"units"} : y.attrs[k] = x.attrs[k]

----------------------------------------------------------------------------
(* C7: the decomposition without its prerequisites *)

\* C7: given a dataset lacking at least one of the six prerequisite fluxes, the
\* decomposition returns a dataset identical to its input (no derived variable,
\* no Ghan_name or Ghan_long_name attribute added).
C7_NoOpWithoutPrerequisites ==
    (pc \in {"ghan", "ghan_failed"} /\ ~HasSixFluxes(arg_after)) =>
        /\ pc = "ghan"
        /\ ds = arg_after
        /\ \A n \in DataVars(ds) : DOMAIN ds.vars[n].attrs \cap {"Ghan_name", "Ghan_long_name"} = {}

C7_Witness ==
    /\ pc = "ghan"
    /\ "FSNT_DRF" \notin DataVars(arg_after)
    /\ {"FLNT", "FSNT", "FLNT_DRF", "FLNTCDRF", "FSNTCDRF"} \subseteq DataVars(arg_after)
    /\ ds = arg_after

----------------------------------------------------------------------------
(* C8: spin-up trimming *)

\* C8: for a merged dataset of N steps and 0 <= K < N, create_dataset returns
\* N - K steps in the original order, the first being original step K + 1,
\* with or without time correction and with or without variable selection.
C8_SpinupTrimmed ==
    (pc = "created" /\ args.spinup_months < NSteps(open_mfdataset(disk, args.comp))) =>
        LET raw == open_mfdataset(disk, args.comp)
            K == args.spinup_months
        IN  /\ NSteps(ds) = NSteps(raw) - K
            /\ ds.ids = [i \in 1..(NSteps(raw) - K) |-> K + i]
            /\ ds.ids[1] = K + 1
            /\ \A n \in DataVars(ds) :
                ds.vars[n].values = [i \in 1..(NSteps(raw) - K) |-> raw.vars[n].values[K + i]]
            /\ ds.bnds = [i \in 1..(NSteps(raw) - K) |-> raw.bnds[K + i]]

C8_Witness ==
    /\ pc = "created"
    /\ args.spinup_months = 2
    /\ args.fix_timestamp = "DatetimeNoLeap" /\ args.history_field = "h0"
    /\ ~args.full_dset
    /\ NSteps(ds) = MaxSteps - 2
    /\ ds.ids[1] = 3
    /\ ds.time[1].d = 15

----------------------------------------------------------------------------
(* C10: the stages taken together *)

\* C10: after create_dataset (full_dset=False, raw files holding every catalog
\* variable), fix_units, fix_names and the decomposition, save_postprocessed
\* called with the same component and pressure flag finds every variable it
\* selects in the dataset, so it never stops on a missing variable.
C10_WriterFindsItsVariables ==
    (/\ pc = "saved"
     /\ ~args.full_dset
     /\ sargs.component = args.comp
     /\ sargs.pressure_vars = args.pressure_vars
     /\ SeqToSet(catalog_flat(args.comp, TRUE)) \subseteq DataVars(open_mfdataset(disk, args.comp))
     /\ NSteps(ds) > 0) =>
        /\ err = "none"
        /\ \A c \in SeqToSet(FileCats(sargs.component)) :
            SelectionAsWritten(sargs.component, sargs.pressure_vars, c) \subseteq DataVars(ds)

====
